---- MODULE Spec2Model ----
(***************************************************************************)
(* A model of xlsx_to_csv.py: the cell-address codec, the shared-string    *)
(* table, the worksheet decoder, the grid serializer and the per-file      *)
(* conversion loop.                                                        *)
(*                                                                         *)
(* A Python str is a sequence of one-character strings (<<"A", "1">> is    *)
(* "A1"); None, where the code can see it, is the empty sequence for an    *)
(* element text (ElementTree gives None, never '', for an empty element)   *)
(* and for a missing attribute (both are falsy at line 63).                *)
(***************************************************************************)
EXTENDS Integers, Sequences, FiniteSets, TLC

\* ------------------------------------------------------------------ bounds
MaxColNum == 1000
MaxCells == 3
MaxFiles == 3
MaxParts == 3

\* -------------------------------------------------------------- characters
\* string.ascii_uppercase: the characters [A-Z] of the pattern at line 19.
Letters == <<"A", "B", "C", "D", "E", "F", "G", "H", "I", "J", "K", "L", "M",
             "N", "O", "P", "Q", "R", "S", "T", "U", "V", "W", "X", "Y", "Z">>

\* The characters \d of the patterns at lines 19 and 135 (ASCII digits).
Digits == <<"0", "1", "2", "3", "4", "5", "6", "7", "8", "9">>

\* The characters of the part names, in code-point order (what sorted()
\* at line 133 compares).
CodePoints == <<".", "/", "0", "1", "2", "3", "4", "5", "6", "7", "8", "9",
                "B", "S", "_", "a", "b", "e", "g", "h", "i", "k", "l", "m",
                "n", "o", "r", "s", "t", "w", "x">>

IsLetter(c) == \E i \in 1..Len(Letters) : Letters[i] = c

IsDigit(c) == \E i \in 1..Len(Digits) : Digits[i] = c

\* ord(char) - ord('A') + 1 (line 29)
LetterVal(c) == CHOOSE i \in 1..Len(Letters) : Letters[i] = c

\* the value of one decimal digit, as int() reads it (lines 24, 78)
DigitVal(c) == (CHOOSE i \in 1..Len(Digits) : Digits[i] = c) - 1

\* ord(c), up to an order-preserving renumbering
Ord(c) == CHOOSE i \in 1..Len(CodePoints) : CodePoints[i] = c

\* s[i:] with a 0-based i, as Python slices
Drop(s, n) == SubSeq(s, n + 1, Len(s))

Take(s, n) == SubSeq(s, 1, n)

\* ------------------------------------------------------------ str methods
RECURSIVE LStrip(_)
LStrip(s) == IF s # <<>> /\ Head(s) = " " THEN LStrip(Tail(s)) ELSE s

RECURSIVE RStrip(_)
RStrip(s) == IF s # <<>> /\ s[Len(s)] = " " THEN RStrip(Take(s, Len(s) - 1)) ELSE s

\* str.strip() (lines 87, 107)
Strip(s) == RStrip(LStrip(s))

\* the length of the longest prefix of s made of letters A-Z
RECURSIVE LetterPrefixLen(_)
LetterPrefixLen(s) ==
    IF s # <<>> /\ IsLetter(Head(s)) THEN 1 + LetterPrefixLen(Tail(s)) ELSE 0

\* the length of the longest prefix of s made of digits
RECURSIVE DigitPrefixLen(_)
DigitPrefixLen(s) ==
    IF s # <<>> /\ IsDigit(Head(s)) THEN 1 + DigitPrefixLen(Tail(s)) ELSE 0

\* int() of a non-empty run of decimal digits
RECURSIVE DigitsToInt(_)
DigitsToInt(ds) ==
    IF ds = <<>> THEN 0
    ELSE DigitsToInt(Take(ds, Len(ds) - 1)) * 10 + DigitVal(ds[Len(ds)])

\* int(text) for a str (line 78): surrounding whitespace is stripped, one
\* optional sign, then digits only; anything else is a ValueError.
IntParse(text) ==
    LET t == Strip(text)
        signed == t # <<>> /\ Head(t) \in {"-", "+"}
        ds == IF signed THEN Tail(t) ELSE t
        ok == ds # <<>> /\ DigitPrefixLen(ds) = Len(ds)
    IN  [ok |-> ok,
         val |-> IF ~ok THEN 0
                 ELSE IF signed /\ Head(t) = "-" THEN 0 - DigitsToInt(ds)
                 ELSE DigitsToInt(ds)]

\* ----------------------------------------------------------- address codec
RECURSIVE ColumnLoop(_, _)
ColumnLoop(col_num, result) ==
    IF col_num > 0
    THEN LET n == col_num - 1
         IN  ColumnLoop(n \div 26, <<Letters[(n % 26) + 1]>> \o result)
    ELSE result

\* a plausible slip: the decrement of line 12 forgotten (plain base 26)
RECURSIVE ColumnLoopNoDecrement(_, _)
ColumnLoopNoDecrement(col_num, result) ==
    IF col_num > 0
    THEN ColumnLoopNoDecrement(col_num \div 26,
                               <<Letters[(col_num % 26) + 1]>> \o result)
    ELSE result

column_index_to_letter_base26(col_num) == ColumnLoopNoDecrement(col_num, <<>>)

column_index_to_letter(col_num) == ColumnLoop(col_num, <<>>)

\* lines 27-29: col_num = col_num * 26 + (ord(char) - ord('A') + 1)
RECURSIVE ColumnAccumulate(_, _)
ColumnAccumulate(col_letters, col_num) ==
    IF col_letters = <<>> THEN col_num
    ELSE ColumnAccumulate(Tail(col_letters), col_num * 26 + LetterVal(Head(col_letters)))

\* re.match(r'([A-Z]+)(\d+)', cell_ref): anchored at the start only; both
\* groups are greedy and their character classes are disjoint, so the match
\* is the longest run of letters followed by the longest run of digits.
RefMatch(cell_ref) ==
    LET nl == LetterPrefixLen(cell_ref)
        nd == DigitPrefixLen(Drop(cell_ref, nl))
    IN  [ok |-> nl >= 1 /\ nd >= 1,
         col_letters |-> Take(cell_ref, nl),
         row_digits |-> SubSeq(cell_ref, nl + 1, nl + nd)]

\* (None, None) is ok = FALSE; otherwise (row_num - 1, col_num - 1)
excel_cell_to_coords(cell_ref) ==
    LET m == RefMatch(cell_ref)
    IN  IF ~m.ok THEN [ok |-> FALSE, row |-> 0, col |-> 0]
        ELSE [ok |-> TRUE,
              row |-> DigitsToInt(m.row_digits) - 1,
              col |-> ColumnAccumulate(m.col_letters, 0) - 1]

\* ------------------------------------------------------ shared-string table
\* a plausible slip: the KeyError of an absent part is not caught
parse_shared_strings_uncaught(part) ==
    IF part.state \in {"absent", "malformed"} THEN [raised |-> TRUE, table |-> <<>>]
    ELSE [raised |-> FALSE,
          table |-> [i \in 1..Len(part.items) |->
                        IF part.items[i].has_t THEN part.items[i].text ELSE <<>>]]

\* parse_shared_strings on the state of xl/sharedStrings.xml: absent (the
\* KeyError of zip_file.open is caught), malformed (ET.parse raises ParseError,
\* which line 45 does not catch) or a list of <si> items, each with or without
\* a <t> descendant whose text may be None.
parse_shared_strings(part) ==
    IF part.state = "absent" THEN [raised |-> FALSE, table |-> <<>>]
    ELSE IF part.state = "malformed" THEN [raised |-> TRUE, table |-> <<>>]
    ELSE [raised |-> FALSE,
          table |-> [i \in 1..Len(part.items) |->
                        IF part.items[i].has_t THEN part.items[i].text ELSE <<>>]]

\* ------------------------------------------------------- worksheet decoder
\* Lines 70-84: the value of one cell. raised is the TypeError of int(None)
\* at line 78, which the except clause of line 81 does not catch.
CellValue(cell, shared_strings) ==
    LET raw == cell.text
        p == IntParse(raw)
        n == Len(shared_strings)
    IN  IF ~cell.has_v THEN [raised |-> FALSE, value |-> <<>>]
        ELSE IF cell.t # "s" THEN [raised |-> FALSE, value |-> raw]
        ELSE IF raw = <<>> THEN [raised |-> TRUE, value |-> <<>>]
        ELSE IF ~p.ok THEN [raised |-> FALSE, value |-> raw]
        ELSE IF ~(p.val < n) THEN [raised |-> FALSE, value |-> <<>>]
        ELSE IF p.val >= 0 THEN [raised |-> FALSE, value |-> shared_strings[p.val + 1]]
        ELSE IF p.val >= 0 - n
             THEN [raised |-> FALSE, value |-> shared_strings[n + p.val + 1]]
        ELSE [raised |-> FALSE, value |-> raw]

Max(a, b) == IF a >= b THEN a ELSE b

\* cells[(row_idx, col_idx)] = cell_value
Store(cells, key, value) ==
    [k \in DOMAIN cells \cup {key} |-> IF k = key THEN value ELSE cells[k]]

\* Lines 86-90 for a cell that was not skipped: rc its coordinates, cv its
\* value (or the exception raised while computing it).
StoreCell(g, rc, cv) ==
    IF ~cv.raised /\ Strip(cv.value) # <<>>
    THEN [raised |-> FALSE, coords |-> rc, cell_value |-> cv.value,
          cells |-> Store(g.cells, <<rc.row, rc.col>>, cv.value),
          max_row |-> Max(g.max_row, rc.row),
          max_col |-> Max(g.max_col, rc.col)]
    ELSE [raised |-> cv.raised, coords |-> rc, cell_value |-> cv.value,
          cells |-> g.cells, max_row |-> g.max_row, max_col |-> g.max_col]

\* Lines 66-68: a cell whose address does not decode is skipped.
DecodeCell(g, cell, rc, shared_strings) ==
    IF ~rc.ok
    THEN [raised |-> FALSE, coords |-> rc, cell_value |-> <<>>,
          cells |-> g.cells, max_row |-> g.max_row, max_col |-> g.max_col]
    ELSE StoreCell(g, rc, CellValue(cell, shared_strings))

\* One iteration of the loop body of lines 62-90 on the grid g =
\* [cells, max_row, max_col]; the locals are returned with it.
ParseCell(g, cell, shared_strings) ==
    IF cell.r = <<>>
    THEN [raised |-> FALSE, coords |-> [ok |-> FALSE, row |-> 0, col |-> 0],
          cell_value |-> <<>>,
          cells |-> g.cells, max_row |-> g.max_row, max_col |-> g.max_col]
    ELSE DecodeCell(g, cell, excel_cell_to_coords(cell.r), shared_strings)

\* lines 55-57
EmptyGrid == [cells |-> <<>>, max_row |-> 0, max_col |-> 0]

RECURSIVE ParseCells(_, _, _)
RECURSIVE ParseRest(_, _, _)
\* the loop of lines 60-61 over the cells left, cs
ParseCells(g, cs, shared_strings) ==
    IF cs = <<>> THEN [raised |-> FALSE, cells |-> g.cells,
                       max_row |-> g.max_row, max_col |-> g.max_col]
    ELSE ParseRest(ParseCell(g, Head(cs), shared_strings), Tail(cs), shared_strings)

\* after one iteration with result r: an exception ends the loop
ParseRest(r, cs, shared_strings) ==
    IF r.raised
    THEN [raised |-> TRUE, cells |-> r.cells, max_row |-> r.max_row, max_col |-> r.max_col]
    ELSE ParseCells([cells |-> r.cells, max_row |-> r.max_row, max_col |-> r.max_col],
                    cs, shared_strings)

\* parse_worksheet_xml: ET.fromstring raises ParseError on malformed markup,
\* otherwise every cell with an address is decoded in document order.
parse_worksheet_xml(xml_content, shared_strings) ==
    IF ~xml_content.wellformed
    THEN [raised |-> TRUE, cells |-> <<>>, max_row |-> 0, max_col |-> 0]
    ELSE ParseCells(EmptyGrid, xml_content.cells, shared_strings)

\* --------------------------------------------------------- grid serializer
\* lines 101-104: row_data of one row index
RowData(cells, row_idx, max_col) ==
    [c \in 1..(max_col + 1) |->
        IF <<row_idx, c - 1>> \in DOMAIN cells THEN cells[<<row_idx, c - 1>>] ELSE <<>>]

\* line 107: any(cell.strip() for cell in row_data)
AnyNonEmpty(row_data) == \E c \in 1..Len(row_data) : Strip(row_data[c]) # <<>>

RECURSIVE WriteRows(_, _, _, _)
WriteRows(cells, row_idx, max_row, max_col) ==
    IF row_idx > max_row THEN <<>>
    ELSE LET row_data == RowData(cells, row_idx, max_col)
         IN  (IF AnyNonEmpty(row_data) THEN <<row_data>> ELSE <<>>)
             \o WriteRows(cells, row_idx + 1, max_row, max_col)

\* cells_to_csv: the rows handed to writer.writerow, in order
cells_to_csv(cells, max_row, max_col) == WriteRows(cells, 0, max_row, max_col)

\* ------------------------------------------------------------- part names
\* 'xl/worksheets/sheet' and '.xml' (line 125), 'sheet' (line 135)
WorksheetPrefix == <<"x", "l", "/", "w", "o", "r", "k", "s", "h", "e", "e", "t", "s",
                     "/", "s", "h", "e", "e", "t">>

XmlSuffix == <<".", "x", "m", "l">>

SheetWord == <<"s", "h", "e", "e", "t">>

\* str.startswith, str.endswith
StartsWith(s, prefix) == Len(s) >= Len(prefix) /\ Take(s, Len(prefix)) = prefix

EndsWith(s, suffix) == Len(s) >= Len(suffix) /\ Drop(s, Len(s) - Len(suffix)) = suffix

\* line 125: the names of the archive that are worksheet parts
WorksheetFiles(namelist) ==
    {f \in namelist : StartsWith(f, WorksheetPrefix) /\ EndsWith(f, XmlSuffix)}

\* a < b for two str: lexicographic by code point
RECURSIVE StrLess(_, _)
StrLess(a, b) ==
    IF b = <<>> THEN FALSE
    ELSE IF a = <<>> THEN TRUE
    ELSE IF Head(a) = Head(b) THEN StrLess(Tail(a), Tail(b))
    ELSE Ord(Head(a)) < Ord(Head(b))

\* sorted(worksheet_files), line 133
RECURSIVE Sorted(_)
Sorted(names) ==
    IF names = {} THEN <<>>
    ELSE LET least == CHOOSE f \in names : \A g \in names \ {f} : StrLess(f, g)
         IN  <<least>> \o Sorted(names \ {least})

\* re.search(r'sheet(\d+)', worksheet_file): group(1) of the leftmost match,
\* or <<>> when there is none (sheet_num is None)
RECURSIVE SheetSearch(_)
SheetSearch(s) ==
    IF Len(s) <= Len(SheetWord) THEN <<>>
    ELSE IF StartsWith(s, SheetWord) /\ IsDigit(s[Len(SheetWord) + 1])
         THEN Take(Drop(s, Len(SheetWord)), DigitPrefixLen(Drop(s, Len(SheetWord))))
    ELSE SheetSearch(Tail(s))

\* line 136
SheetName(worksheet_file) == SheetWord \o SheetSearch(worksheet_file)

\* line 154, below output_dir: f"{base_name}_{sheet_name}.csv"
CsvFilename(base_name, sheet_name) ==
    base_name \o <<"_">> \o sheet_name \o <<".", "c", "s", "v">>

\* ------------------------------------------------------------------ inputs
\* Cell addresses (the r attribute); <<>> is a missing or empty attribute.
CellRefs ==
    { <<>>, <<"A", "1">>, <<"B", "1">>, <<"A", "2">>, <<"B", "3">>, <<"A", "0">>,
      <<"1", "A">>, <<"A">>, <<"1", "2">>, <<"A", "1", "x">>, <<"a", "1">> }

\* The text of a <v> element; <<>> is None (an empty element).
Texts ==
    { <<>>, <<"x">>, <<" ", "x">>, <<" ">>, <<"1">>, <<"9">>, <<"-", "1">>,
      <<"-", "5">> }

\* The t attribute: "s" marks a shared string, "n" stands for any other
\* value and for a missing attribute.
CellTypes == {"s", "n"}

\* A <c> element: r, t, whether it has a <v> descendant, and that one's text.
CellElements ==
    [r : CellRefs, t : CellTypes, has_v : {TRUE}, text : Texts]
    \cup [r : CellRefs, t : CellTypes, has_v : {FALSE}, text : {<<>>}]

\* States of xl/sharedStrings.xml in a package.
SharedStringParts ==
    { [state |-> "absent", items |-> <<>>],
      [state |-> "malformed", items |-> <<>>],
      [state |-> "wellformed",
       items |-> << [has_t |-> FALSE, text |-> <<>>],
                    [has_t |-> TRUE, text |-> <<" ", "b">>],
                    [has_t |-> TRUE, text |-> <<"c">>] >>] }

\* The shared-string tables a worksheet can be decoded against.
SharedStringTables ==
    { parse_shared_strings(part).table :
        part \in {q \in SharedStringParts : ~parse_shared_strings(q).raised} }

\* Names of the parts of a package, other than xl/sharedStrings.xml.
PartNames ==
    { WorksheetPrefix \o <<"1">> \o XmlSuffix,
      WorksheetPrefix \o <<"2">> \o XmlSuffix,
      WorksheetPrefix \o <<"1", "0">> \o XmlSuffix,
      WorksheetPrefix \o <<"1", "b">> \o XmlSuffix,
      WorksheetPrefix \o XmlSuffix,
      WorksheetPrefix \o <<"3", ".", "b", "i", "n">>,
      <<"x", "l", "/", "w", "o", "r", "k", "b", "o", "o", "k">> \o XmlSuffix }

\* zip_file.namelist(): its order is erased by sorted() at line 133.
Namelists == {n \in SUBSET PartNames : Cardinality(n) <= MaxParts}

\* The markup of the worksheet parts of a run: malformed, without cells, a
\* blank cell, an inline value, a shared string and an empty shared-string
\* reference.
WorksheetXmls ==
    { [wellformed |-> FALSE, cells |-> <<>>],
      [wellformed |-> TRUE, cells |-> <<>>],
      [wellformed |-> TRUE,
       cells |-> <<[r |-> <<"A", "1">>, t |-> "n", has_v |-> TRUE, text |-> <<" ">>]>>],
      [wellformed |-> TRUE,
       cells |-> <<[r |-> <<"A", "1">>, t |-> "n", has_v |-> TRUE, text |-> <<"x">>]>>],
      [wellformed |-> TRUE,
       cells |-> <<[r |-> <<"A", "1">>, t |-> "n", has_v |-> TRUE, text |-> <<"x">>],
                   [r |-> <<"B", "3">>, t |-> "s", has_v |-> TRUE, text |-> <<"1">>]>>],
      [wellformed |-> TRUE,
       cells |-> <<[r |-> <<"A", "1">>, t |-> "n", has_v |-> TRUE, text |-> <<"x">>],
                   [r |-> <<"A", "2">>, t |-> "s", has_v |-> TRUE, text |-> <<>>]>>] }

\* What reading the part (lines 141-142) and opening the output file (line
\* 96) can do: both succeed, or one of them raises.
IoOutcomes == {"ok", "read_raises", "open_raises"}

\* os.path.splitext(os.path.basename(xlsx_file))[0] of the i-th argument
BaseName(i) == <<"b", Digits[i + 1]>>

\* ------------------------------------------------------------------- state
VARIABLES
    pc,                      \* the position of the program
    n_files,                 \* len(args.xlsx_files)
    file_idx,                \* the position of the loop of line 170 (1-based)
    successful_conversions,
    failed_conversions,
    shared_part,             \* xl/sharedStrings.xml of the open package
    shared_strings,
    worksheet_files,         \* sorted(worksheet_files), line 133
    ws_idx,                  \* the position of the loop of line 133 (1-based)
    ws_log,                  \* what the loop did with each worksheet so far
    out_files,               \* the files written for this input: name -> rows
    cells, max_row, max_col, \* the grid of parse_worksheet_xml
    cell,                    \* the <c> element of the current iteration
    coords,                  \* row_idx, col_idx
    cell_value,
    n_cells,                 \* cells decoded so far
    csv_rows,                \* the rows cells_to_csv wrote
    col_num, col_letters     \* a column number and its letters

mainVars == <<n_files, file_idx, successful_conversions, failed_conversions>>

fileVars == <<shared_part, worksheet_files, ws_idx, ws_log, out_files>>

gridVars == <<cells, max_row, max_col>>

cellVars == <<cell, coords, cell_value, n_cells>>

codecVars == <<col_num, col_letters>>

vars == <<pc, mainVars, fileVars, shared_strings, gridVars, cellVars, csv_rows, codecVars>>

NoCell == [r |-> <<>>, t |-> "n", has_v |-> FALSE, text |-> <<>>]

NoCoords == [ok |-> FALSE, row |-> 0, col |-> 0]

NoPart == [state |-> "absent", items |-> <<>>]

MainIdle ==
    /\ n_files = 0 /\ file_idx = 1
    /\ successful_conversions = 0 /\ failed_conversions = 0

FileIdle ==
    /\ shared_part = NoPart
    /\ worksheet_files = <<>> /\ ws_idx = 1 /\ ws_log = <<>> /\ out_files = <<>>

GridIdle == cells = <<>> /\ max_row = 0 /\ max_col = 0

CellIdle == cell = NoCell /\ coords = NoCoords /\ cell_value = <<>> /\ n_cells = 0

CodecIdle == col_num = 0 /\ col_letters = <<>>

\* ------------------------------------------------------- main and convert
\* lines 164-168: nargs='+' gives at least one file
Init ==
    /\ pc = "main_loop"
    /\ n_files \in 1..MaxFiles
    /\ file_idx = 1
    /\ successful_conversions = 0
    /\ failed_conversions = 0
    /\ FileIdle /\ shared_strings = <<>>
    /\ GridIdle /\ CellIdle /\ csv_rows = <<>> /\ CodecIdle

\* a plausible slip: the missing file is skipped without being counted
FileNotFoundUncounted ==
    /\ pc = "main_loop"
    /\ file_idx <= n_files
    /\ file_idx' = file_idx + 1
    /\ UNCHANGED <<pc, n_files, successful_conversions, failed_conversions, fileVars,
                   shared_strings, gridVars, cellVars, csv_rows, codecVars>>

\* lines 175-178: os.path.exists(xlsx_file) is false
FileNotFound ==
    /\ pc = "main_loop"
    /\ file_idx <= n_files
    /\ failed_conversions' = failed_conversions + 1
    /\ file_idx' = file_idx + 1
    /\ UNCHANGED <<pc, n_files, successful_conversions, fileVars, shared_strings,
                   gridVars, cellVars, csv_rows, codecVars>>

\* lines 175, 180-181 and 112-120: the file exists; the call, os.makedirs and
\* ZipFile(...), either of which may raise (OSError, BadZipFile)
OpenPackage ==
    /\ pc = "main_loop"
    /\ file_idx <= n_files
    /\ \E opened \in BOOLEAN, part \in SharedStringParts :
          /\ pc' = IF opened THEN "strings" ELSE "except"
          /\ shared_part' = IF opened THEN part ELSE shared_part
    /\ UNCHANGED <<mainVars, worksheet_files, ws_idx, ws_log, out_files, shared_strings,
                   gridVars, cellVars, csv_rows, codecVars>>

\* line 122
LoadSharedStrings ==
    /\ pc = "strings"
    /\ pc' = IF parse_shared_strings(shared_part).raised THEN "except" ELSE "enumerate"
    /\ shared_strings' = parse_shared_strings(shared_part).table
    /\ UNCHANGED <<mainVars, fileVars, gridVars, cellVars, csv_rows, codecVars>>

\* lines 125-133
EnumerateWorksheets ==
    /\ pc = "enumerate"
    /\ \E namelist \in Namelists :
          /\ worksheet_files' = Sorted(WorksheetFiles(namelist))
          /\ pc' = IF WorksheetFiles(namelist) = {} THEN "return" ELSE "worksheet"
    /\ UNCHANGED <<mainVars, shared_part, ws_idx, ws_log, out_files, shared_strings,
                   gridVars, cellVars, csv_rows, codecVars>>

\* what the loop did with one worksheet
LogEntry(worksheet_file, outcome, csv_filename) ==
    [part |-> worksheet_file, outcome |-> outcome, csv |-> csv_filename]

\* lines 135-157 for worksheet_file, with r the result of line 145
LoopBody(worksheet_file, csv_filename, r, io) ==
    IF io = "read_raises" \/ r.raised
    THEN /\ pc' = "except"
         /\ ws_log' = Append(ws_log, LogEntry(worksheet_file, "raised", csv_filename))
         /\ UNCHANGED <<ws_idx, out_files, gridVars, csv_rows>>
    ELSE IF r.cells = <<>>
    THEN /\ pc' = "worksheet"
         /\ ws_idx' = ws_idx + 1
         /\ ws_log' = Append(ws_log, LogEntry(worksheet_file, "no_data", csv_filename))
         /\ cells' = r.cells /\ max_row' = r.max_row /\ max_col' = r.max_col
         /\ UNCHANGED <<out_files, csv_rows>>
    ELSE IF io = "open_raises"
    THEN /\ pc' = "except"
         /\ ws_log' = Append(ws_log, LogEntry(worksheet_file, "raised", csv_filename))
         /\ cells' = r.cells /\ max_row' = r.max_row /\ max_col' = r.max_col
         /\ UNCHANGED <<ws_idx, out_files, csv_rows>>
    ELSE /\ pc' = "worksheet"
         /\ ws_idx' = ws_idx + 1
         /\ ws_log' = Append(ws_log, LogEntry(worksheet_file, "written", csv_filename))
         /\ cells' = r.cells /\ max_row' = r.max_row /\ max_col' = r.max_col
         /\ csv_rows' = cells_to_csv(r.cells, r.max_row, r.max_col)
         /\ out_files' = Store(out_files, csv_filename, csv_rows')

\* lines 133-157: one iteration of the worksheet loop
ProcessWorksheet ==
    /\ pc = "worksheet"
    /\ ws_idx <= Len(worksheet_files)
    /\ \E xml_content \in WorksheetXmls, io \in IoOutcomes :
          LoopBody(worksheet_files[ws_idx],
                   CsvFilename(BaseName(file_idx), SheetName(worksheet_files[ws_idx])),
                   parse_worksheet_xml(xml_content, shared_strings), io)
    /\ UNCHANGED <<mainVars, shared_part, worksheet_files, shared_strings, cellVars,
                   codecVars>>

\* the loop of line 133 is exhausted
WorksheetsDone ==
    /\ pc = "worksheet"
    /\ ws_idx > Len(worksheet_files)
    /\ pc' = "return"
    /\ UNCHANGED <<mainVars, fileVars, shared_strings, gridVars, cellVars, csv_rows,
                   codecVars>>

\* convert_xlsx_to_csv has returned or raised: its locals are gone, and the
\* files it wrote, named after this input, are not touched again
FrameDropped ==
    /\ shared_part' = NoPart
    /\ shared_strings' = <<>>
    /\ worksheet_files' = <<>>
    /\ ws_idx' = 1
    /\ ws_log' = <<>>
    /\ out_files' = <<>>
    /\ cells' = <<>> /\ max_row' = 0 /\ max_col' = 0
    /\ csv_rows' = <<>>

\* lines 182-183
ConvertSucceeded ==
    /\ pc = "return"
    /\ successful_conversions' = successful_conversions + 1
    /\ file_idx' = file_idx + 1
    /\ pc' = "main_loop"
    /\ FrameDropped
    /\ UNCHANGED <<n_files, failed_conversions, cellVars, codecVars>>

\* lines 184-186
ConvertFailed ==
    /\ pc = "except"
    /\ failed_conversions' = failed_conversions + 1
    /\ file_idx' = file_idx + 1
    /\ pc' = "main_loop"
    /\ FrameDropped
    /\ UNCHANGED <<n_files, successful_conversions, cellVars, codecVars>>

\* lines 188-199
Summary ==
    /\ pc = "main_loop"
    /\ file_idx > n_files
    /\ pc' = "done"
    /\ UNCHANGED <<mainVars, fileVars, shared_strings, gridVars, cellVars, csv_rows,
                   codecVars>>

Next ==
    \/ FileNotFound
    \/ OpenPackage
    \/ LoadSharedStrings
    \/ EnumerateWorksheets
    \/ ProcessWorksheet
    \/ WorksheetsDone
    \/ ConvertSucceeded
    \/ ConvertFailed
    \/ Summary

Spec == Init /\ [][Next]_vars

\* The program is sequential and every step of it returns or raises: a step
\* that can be taken is taken.
FairSpec == Spec /\ WF_vars(Next)

\* ------------------------------------- one worksheet, decoded cell by cell
DecodeInit ==
    /\ pc = "cells"
    /\ shared_strings \in SharedStringTables
    /\ MainIdle /\ FileIdle
    /\ GridIdle /\ CellIdle /\ csv_rows = <<>> /\ CodecIdle

\* the assignments of one iteration of lines 61-90, r being its result; a
\* local the iteration does not reach keeps the value of the one before
CellStep(c, r) ==
    /\ cell' = c
    /\ coords' = IF c.r = <<>> THEN coords ELSE r.coords
    /\ cell_value' = IF c.r = <<>> \/ ~r.coords.ok THEN cell_value ELSE r.cell_value
    /\ cells' = r.cells
    /\ max_row' = r.max_row
    /\ max_col' = r.max_col
    /\ pc' = IF r.raised THEN "raised" ELSE "cells"

\* lines 61-90: the next <c> element of the worksheet
NextCell ==
    /\ pc = "cells"
    /\ n_cells < MaxCells
    /\ \E c \in CellElements :
          CellStep(c, ParseCell([cells |-> cells, max_row |-> max_row,
                                 max_col |-> max_col], c, shared_strings))
    /\ n_cells' = n_cells + 1
    /\ UNCHANGED <<mainVars, fileVars, shared_strings, csv_rows, codecVars>>

\* line 92, then lines 147-149: a worksheet without retained cells
NoData ==
    /\ pc = "cells"
    /\ cells = <<>>
    /\ pc' = "no_data"
    /\ UNCHANGED <<mainVars, fileVars, shared_strings, gridVars, cellVars, csv_rows,
                   codecVars>>

\* line 92, then lines 151-155: the grid is serialized
Serialize ==
    /\ pc = "cells"
    /\ cells # <<>>
    /\ csv_rows' = cells_to_csv(cells, max_row, max_col)
    /\ pc' = "written"
    /\ UNCHANGED <<mainVars, fileVars, shared_strings, gridVars, cellVars, codecVars>>

DecodeNext ==
    \/ NextCell
    \/ NoData
    \/ Serialize

DecodeSpec == DecodeInit /\ [][DecodeNext]_vars

\* ----------------------------------------- column numbers and their letters
CodecInit ==
    /\ pc = "encode"
    /\ col_num \in 1..MaxColNum
    /\ col_letters = <<>>
    /\ MainIdle /\ FileIdle /\ shared_strings = <<>>
    /\ GridIdle /\ CellIdle /\ csv_rows = <<>>

\* column_index_to_letter(col_num)
Encode ==
    /\ pc = "encode"
    /\ col_letters' = column_index_to_letter(col_num)
    /\ pc' = "decode"
    /\ UNCHANGED <<mainVars, fileVars, shared_strings, gridVars, cellVars, csv_rows,
                   col_num>>

\* excel_cell_to_coords on the letters, as the address of a cell of row 1
Decode ==
    /\ pc = "decode"
    /\ cell' = [r |-> col_letters \o <<"1">>, t |-> "n", has_v |-> FALSE, text |-> <<>>]
    /\ coords' = excel_cell_to_coords(col_letters \o <<"1">>)
    /\ pc' = "decoded"
    /\ UNCHANGED <<mainVars, fileVars, shared_strings, gridVars, cell_value, n_cells,
                   csv_rows, codecVars>>

CodecNext ==
    \/ Encode
    \/ Decode

CodecSpec == CodecInit /\ [][CodecNext]_vars

\* ------------------------------------------------------------------ claims
\* the largest element of a non-empty set of integers
Largest(S) == CHOOSE m \in S : \A x \in S : x <= m

Smallest(S) == CHOOSE m \in S : \A x \in S : m <= x

RetainedRows == {k[1] : k \in DOMAIN cells}

RetainedCols == {k[2] : k \in DOMAIN cells}

\* the cell of the current iteration was not skipped at lines 63-68
CellDecoded == n_cells > 0 /\ cell.r # <<>> /\ coords.ok

\* the bounds are exactly the largest retained indices, and nothing blank is kept
BoundsFromRetained ==
    /\ cells = <<>> => max_row = 0 /\ max_col = 0
    /\ cells # <<>> => max_row = Largest(RetainedRows) /\ max_col = Largest(RetainedCols)
    /\ \A k \in DOMAIN cells : Strip(cells[k]) # <<>>

\* C1: at every point of parse_worksheet_xml, max_row and max_col are the
\* largest row and column index among the retained cells (0 for an empty
\* grid); they never decrease; a cell that is blank after trimming is not
\* stored and changes neither bound.
C1_BoundsAreLargestRetained ==
    [][/\ BoundsFromRetained'
       /\ max_row' >= max_row
       /\ max_col' >= max_col
       /\ (n_cells' = n_cells + 1 /\ CellDecoded' /\ Strip(cell_value') = <<>>)
             => UNCHANGED gridVars]_vars

\* every file attempted so far has been counted, and at the end all are
EveryFileCounted ==
    /\ file_idx <= n_files + 1
    /\ successful_conversions + failed_conversions = file_idx - 1
    /\ pc = "done" => successful_conversions + failed_conversions = n_files

\* the loop moves on by one file, counting it on one side: a missing file
\* (the loop continues from its top) and a conversion that raised as failed,
\* a conversion that returned as successful
CountedOnceOnItsSide ==
    file_idx' # file_idx =>
        /\ file_idx' = file_idx + 1
        /\ pc' = "main_loop"
        /\ IF pc = "return"
           THEN /\ successful_conversions' = successful_conversions + 1
                /\ failed_conversions' = failed_conversions
           ELSE /\ pc \in {"main_loop", "except"}
                /\ failed_conversions' = failed_conversions + 1
                /\ successful_conversions' = successful_conversions

\* C2: the run attempts every supplied file in order and completes; a missing
\* file and a file whose conversion raises are counted as failed and the
\* loop goes on to the next file; at the end successful_conversions +
\* failed_conversions is the number of files, each counted exactly once.
C2_RunCountsEveryFile ==
    /\ []EveryFileCounted
    /\ [][CountedOnceOnItsSide]_vars
    /\ [][pc = "except" => file_idx' = file_idx + 1]_vars
    /\ <>(pc = "done")

\* a run over the most files that ends with one failure and the rest converted
C2_Witness ==
    /\ pc = "done"
    /\ n_files = MaxFiles
    /\ failed_conversions = 1
    /\ successful_conversions = MaxFiles - 1

\* the text of the current cell is an index into shared_strings
IndexInBounds ==
    /\ IntParse(cell.text).ok
    /\ IntParse(cell.text).val >= 0
    /\ IntParse(cell.text).val < Len(shared_strings)

\* C3: a shared-string cell (t = 's') whose raw value is no integer, or an
\* index outside the table, has the raw text as its value and does not fail
\* the decode; only an in-bounds index is resolved through the table.
C3_SharedStringFallback ==
    (CellDecoded /\ cell.has_v /\ cell.t = "s") =>
        /\ pc # "raised"
        /\ IF IndexInBounds
           THEN cell_value = shared_strings[IntParse(cell.text).val + 1]
           ELSE cell_value = cell.text

\* C4: an exception raised while one worksheet is decoded or serialized is
\* contained to that worksheet: the worksheets after it in sorted order are
\* still processed.
C4_WorksheetErrorContained ==
    (pc = "except" /\ ws_log # <<>>) => Len(ws_log) = Len(worksheet_files)

\* row_data of the retained rows S, in ascending row index
RECURSIVE RowsAscending(_)
RowsAscending(S) ==
    IF S = {} THEN <<>>
    ELSE <<[c \in 1..(max_col + 1) |->
              IF <<Smallest(S), c - 1>> \in DOMAIN cells
              THEN cells[<<Smallest(S), c - 1>>] ELSE <<>>]>>
         \o RowsAscending(S \ {Smallest(S)})

\* C5: cells_to_csv emits, in ascending row index, one row of max_col + 1
\* fields (the grid value or the empty string) for every row index that holds
\* a retained cell, and no other row.
C5_OneRowPerRetainedRow ==
    pc = "written" => csv_rows = RowsAscending(RetainedRows)

\* the worksheets of the current file whose csv file was written
WrittenEntries == {i \in 1..Len(ws_log) : ws_log[i].outcome = "written"}

\* C6: for one input file, one output file per worksheet part with retained
\* cells, none for a part without, so that the number of distinct output
\* files is the number of worksheet parts with data and no worksheet's output
\* is overwritten by another worksheet of the file.
C6_OneFilePerWorksheetWithData ==
    pc = "return" =>
        /\ \A i \in 1..Len(ws_log) : ws_log[i].outcome \in {"written", "no_data"}
        /\ \A i \in WrittenEntries : ws_log[i].csv \in DOMAIN out_files
        /\ Cardinality({ws_log[i].csv : i \in WrittenEntries}) = Cardinality(WrittenEntries)

\* ref is, as a whole, one or more letters A-Z followed by one or more digits
WholeReference(ref) ==
    /\ LetterPrefixLen(ref) >= 1
    /\ DigitPrefixLen(Drop(ref, LetterPrefixLen(ref))) >= 1
    /\ LetterPrefixLen(ref) + DigitPrefixLen(Drop(ref, LetterPrefixLen(ref))) = Len(ref)

\* C7: excel_cell_to_coords fails for every reference that is not, as a whole,
\* letters followed by digits, and the decoder skips such a cell: nothing is
\* stored, the bounds do not change and the worksheet does not fail.
C7_MalformedAddressSkipped ==
    [][(n_cells' = n_cells + 1 /\ ~WholeReference(cell'.r)) =>
          /\ ~coords'.ok
          /\ pc' = "cells"
          /\ UNCHANGED gridVars]_vars

\* C8: for every n in 1..MaxColNum, the letters of column_index_to_letter(n)
\* decode to n again (excel_cell_to_coords returns the column 0-based).
C8_ColumnBijection ==
    pc = "decoded" => coords.ok /\ coords.col + 1 = col_num

\* column 1000 is ALL
C8_Witness ==
    /\ pc = "decoded"
    /\ col_num = 1000
    /\ col_letters = <<"A", "L", "L">>
    /\ coords.col = 999

\* C9, as stated: whatever the state of the shared-string part, loading it
\* never moves the file from the strings-loading step to Failed; the
\* worksheets are enumerated next.
C9_StringsNeverFailTheFile ==
    [][pc = "strings" => pc' = "enumerate"]_vars

\* C9, amended: an absent part gives the empty table and a well-formed part
\* one entry per string item, and the worksheets are enumerated next; a
\* malformed part fails the file.
C9_StringsFailOnlyWhenMalformed ==
    [][pc = "strings" =>
          IF shared_part.state = "malformed"
          THEN pc' = "except"
          ELSE /\ pc' = "enumerate"
               /\ Len(shared_strings') = Len(shared_part.items)
               /\ shared_part.state = "absent" => shared_strings' = <<>>]_vars

\* the part is absent, the table is empty and the worksheets are being processed
C9_Witness ==
    /\ pc = "worksheet"
    /\ shared_part.state = "absent"
    /\ shared_strings = <<>>
    /\ worksheet_files # <<>>

\* C10: every value stored in the grid is non-blank and has no leading or
\* trailing whitespace, so every field written equals its own trim.
C10_StoredValuesTrimmed ==
    /\ \A k \in DOMAIN cells : Strip(cells[k]) # <<>> /\ Strip(cells[k]) = cells[k]
    /\ \A i \in 1..Len(csv_rows) : \A c \in 1..Len(csv_rows[i]) :
          Strip(csv_rows[i][c]) = csv_rows[i][c]

====
